---- MODULE Spec2Model ----
(***************************************************************************)
(* dmssvc: the ffprobe result cache (fFprobeCache over rrcache.RRCache),   *)
(* its JSON snapshot (load / save) and the service lifecycle               *)
(* (program.Start / run / Stop with the interface monitor loop).           *)
(*                                                                         *)
(* JSON text is modelled as a sequence of string tokens; a length in       *)
(* bytes is the number of tokens.                                          *)
(***************************************************************************)
EXTENDS Integers, Sequences, FiniteSets, TLC

\* ------------------------------------------------------------------ bounds

\* The cache capacity, rrcache.New(64 << 20) in runErr, scaled down to tokens.
Capacity == 20

\* Length of the stream list of the one value that alone exceeds Capacity.
BigLen == 14

\* Number of network interfaces the machine may have.
MaxIfs == 1

\* the goroutines that call into the cache at the same time
NumGoroutines == 2

\* ------------------------------------------------------------- cache data

Paths == {"a", "b", "c"}

ModTimes == {1}

\* dms's ffmpegInfoCacheKey {Path, ModTime}: the key that the server hands to Set.
Keys == [Path : Paths, ModTime : ModTimes]

\* A probe result: its Streams, and whether json.Marshal accepts it (a value
\* holding a channel, a func or a NaN is refused by encoding/json).
SmallValue == [Streams |-> <<>>, Marshalable |-> TRUE]

MediumValue == [Streams |-> <<1, 2>>, Marshalable |-> TRUE]

BigValue == [Streams |-> [i \in 1..BigLen |-> 1], Marshalable |-> TRUE]

BadValue == [Streams |-> <<>>, Marshalable |-> FALSE]

Values == {SmallValue, MediumValue, BigValue, BadValue}

Digits == 0..9

NumTok(n) == ToString(n)

TokNum(s) == IF \E n \in Digits : NumTok(n) = s
             THEN CHOOSE n \in Digits : NumTok(n) = s
             ELSE -1

RECURSIVE NumToks(_)
NumToks(ns) == IF ns = <<>> THEN <<>>
               ELSE <<NumTok(Head(ns))>> \o NumToks(Tail(ns))

\* json.Marshal of a key: {"Path":p,"ModTime":m}
MarshalKey(k) == [err |-> FALSE,
                  b |-> <<"{", "Path", k.Path, "ModTime", NumTok(k.ModTime), "}">>]

\* json.Marshal of a value: an error for an unsupported value, else [s1,s2,...]
MarshalValue(v) == IF v.Marshalable
                   THEN [err |-> FALSE, b |-> <<"[">> \o NumToks(v.Streams) \o <<"]">>]
                   ELSE [err |-> TRUE, b |-> <<>>]

\* --------------------------------------------------------------- variables

VARIABLES
    table,      \* rrcache.RRCache: key -> [value, size]
    got,        \* the result of the last Get: [key, value, ok]
    ideal,      \* history: key -> value of the most recent Set of each key
    over,       \* history: the cumulative size of the Sets has exceeded Capacity
    lastSet,    \* history: the last Set call and the table it found
    goos,       \* runtime.GOOS
    fsPath,     \* the file at config.FFprobeCachePath: [exists, data]
    fsTmp,      \* the file os.CreateTemp made: [exists, data]
    sv,         \* a call of save: [pc, items, err], with history [prev, full]
    ld,         \* a call of load: [pc, items, idx, err], with history [missing, before]
    phase,      \* a shutdown and the next startup: save, new cache, load
    proc,       \* the process: "alive", "fatal" (log.Fatal), "panic" or "exited"
    mainPc,     \* svc.Run: Start, the wait for a signal, Stop
    quit,       \* p.quit: "nil", "open" or "closed"
    wg,         \* p.wg's counter
    topPc,      \* the goroutine Start launches
    runPc,      \* the goroutine running p.run
    monPc,      \* the interface monitor goroutine of runErr
    monIfs,     \* the monitor's ifs
    cacheReady, \* p.cache != nil
    dmsServer,  \* p.dmsServer: 0 for nil, else an index of servers
    servers,    \* every dms.Server constructed so far
    tasks,      \* the goroutines launched to call p.dmsServer.Run()
    hist,       \* history of Stop and of the monitor's last tick
    mu,         \* fFprobeCache's sync.Mutex: 0 unlocked, else the goroutine holding it
    cs,         \* the cache call each goroutine is in: [pc, key, value]
    committed   \* history: the table as the last completed Set left it

cacheVars == <<table, got, ideal, over, lastSet>>

fsVars == <<goos, fsPath, fsTmp>>

supVars == <<proc, mainPc, quit, wg, topPc, runPc, monPc, monIfs, cacheReady,
             dmsServer, servers, tasks, hist>>

lockVars == <<mu, cs, committed>>

vars == <<table, got, ideal, over, lastSet, goos, fsPath, fsTmp, sv, ld, phase,
          proc, mainPc, quit, wg, topPc, runPc, monPc, monIfs, cacheReady,
          dmsServer, servers, tasks, hist, mu, cs, committed>>

\* ------------------------------------------------------ rrcache (external)

EmptyTable == [k \in {} |-> [value |-> SmallValue, size |-> 0]]

RECURSIVE SumSizes(_, _)
SumSizes(t, ks) == IF ks = {} THEN 0
                   ELSE LET k == CHOOSE x \in ks : TRUE
                        IN t[k].size + SumSizes(t, ks \ {k})

\* the cumulative size of the entries held
TotalSize(t) == SumSizes(t, DOMAIN t)

Without(t, k) == [x \in (DOMAIN t) \ {k} |-> t[x]]

\* Random eviction after inserting `key`: every table that evicting randomly
\* chosen other entries, until the total fits or none is left, can end in.
RECURSIVE Evict(_, _)
Evict(t, key) == IF TotalSize(t) <= Capacity \/ (DOMAIN t) \ {key} = {}
                 THEN {t}
                 ELSE UNION {Evict(Without(t, x), key) : x \in (DOMAIN t) \ {key}}

RECURSIVE EvictAny(_)
EvictAny(t) == IF TotalSize(t) <= Capacity \/ DOMAIN t = {}
               THEN {t}
               ELSE UNION {EvictAny(Without(t, x)) : x \in DOMAIN t}

Inserted(t, key, value, size) ==
    [x \in (DOMAIN t) \cup {key} |->
        IF x = key THEN [value |-> value, size |-> size] ELSE t[x]]

RRCacheSetAny(t, key, value, size) == EvictAny(Inserted(t, key, value, size))

\* RRCache.Set(key, value, size): the tables it may leave
RRCacheSet(t, key, value, size) == Evict(Inserted(t, key, value, size), key)

\* RRCache.Get(key)
RRCacheGet(t, key) == IF key \in DOMAIN t
                      THEN [value |-> t[key].value, ok |-> TRUE]
                      ELSE [value |-> SmallValue, ok |-> FALSE]

\* ------------------------------------------------------------ fFprobeCache

SetSizeKeyOnly(key, value) ==
    IF MarshalKey(key).err THEN 0 ELSE Len(MarshalKey(key).b)

SetSizeDouble(key, value) ==
    2 * ((IF MarshalKey(key).err THEN 0 ELSE Len(MarshalKey(key).b))
         + (IF MarshalValue(value).err THEN 0 ELSE Len(MarshalValue(value).b)))

\* the size Set computes: the marshalled length of key and of value, a failed
\* marshal contributing nothing
SetSize(key, value) ==
    (IF MarshalKey(key).err THEN 0 ELSE Len(MarshalKey(key).b))
    + (IF MarshalValue(value).err THEN 0 ELSE Len(MarshalValue(value).b))

\* fFprobeCache.Get: fc.Lock(); defer fc.Unlock(); return fc.c.Get(key)
GetResult(key) == RRCacheGet(table, key)

\* a caller's Get
Get(key) ==
    /\ got' = [key |-> key] @@ GetResult(key)
    /\ UNCHANGED <<table, ideal, over, lastSet>>
    /\ UNCHANGED <<lockVars, fsVars, sv, ld, phase, supVars>>

\* The serialized byte length of an entry (spec, data model), as the claims
\* measure it; independent of what the cache was told.
EntrySize(key, value) ==
    Len(MarshalKey(key).b) + (IF value.Marshalable THEN Len(MarshalValue(value).b) ELSE 0)

RECURSIVE SumEntrySizes(_, _)
SumEntrySizes(f, ks) == IF ks = {} THEN 0
                        ELSE LET k == CHOOSE x \in ks : TRUE
                             IN EntrySize(k, f[k]) + SumEntrySizes(f, ks \ {k})

\* the table an insertion leaves, and the history of it
SetTo(key, value) ==
    LET size == SetSize(key, value)
        newIdeal == [x \in (DOMAIN ideal) \cup {key} |->
                        IF x = key THEN value ELSE ideal[x]]
    IN /\ \E t \in RRCacheSet(table, key, value, size) :
             /\ table' = t
             /\ lastSet' = [key |-> key, value |-> value, size |-> size,
                            overflow |-> TotalSize(Inserted(table, key, value, size))
                                            > Capacity,
                            evicted |-> ((DOMAIN table) \cup {key}) \ DOMAIN t,
                            rewrite |-> key \in DOMAIN ideal,
                            done |-> TRUE]
       /\ ideal' = newIdeal
       /\ over' = (over \/ SumEntrySizes(newIdeal, DOMAIN newIdeal) > Capacity)

\* fFprobeCache.Set, called by the serving component
Set(key, value) ==
    /\ SetTo(key, value)
    /\ UNCHANGED got
    /\ UNCHANGED <<lockVars, fsVars, sv, ld, phase, supVars>>

\* RRCache.Items(): the entries in the order a map iteration may give them;
\* nil (the empty sequence) for an empty cache
RRCacheItems(t) ==
    {its \in [1..Cardinality(DOMAIN t) ->
                [Key : DOMAIN t, Value : {t[k].value : k \in DOMAIN t}]] :
        /\ \A i, j \in DOMAIN its : i # j => its[i].Key # its[j].Key
        /\ \A i \in DOMAIN its : its[i].Value = t[its[i].Key].value}

\* ------------------------------------------------------------ JSON snapshot

RECURSIVE EncodeItems(_)
EncodeItems(its) ==
    IF its = <<>> THEN <<>>
    ELSE <<"{", "Key">> \o MarshalKey(Head(its).Key).b
         \o <<"Value">> \o MarshalValue(Head(its).Value).b \o <<"}">>
         \o EncodeItems(Tail(its))

\* json.Encoder.Encode(items): the marshalled slice (null for a nil slice) and
\* a newline, or an error when an element cannot be marshalled
Encode(its) ==
    IF \E i \in DOMAIN its : MarshalValue(its[i].Value).err
    THEN [err |-> TRUE, b |-> <<>>]
    ELSE IF its = <<>>
    THEN [err |-> FALSE, b |-> <<"null", "\n">>]
    ELSE [err |-> FALSE, b |-> <<"[">> \o EncodeItems(its) \o <<"]", "\n">>]

Tok(s, i) == IF i \in DOMAIN s THEN s[i] ELSE "EOF"

\* the numbers from s[i] up to the closing bracket
RECURSIVE ParseNums(_, _)
ParseNums(s, i) ==
    IF Tok(s, i) = "]" THEN [ok |-> TRUE, val |-> <<>>, next |-> i + 1]
    ELSE IF TokNum(Tok(s, i)) < 0 THEN [ok |-> FALSE, val |-> <<>>, next |-> i]
    ELSE LET r == ParseNums(s, i + 1)
         IN [ok |-> r.ok, val |-> <<TokNum(Tok(s, i))>> \o r.val, next |-> r.next]

Punct == {"{", "}", "[", "]", "null", "\n", "EOF", "Key", "Value", "Path", "ModTime"}

\* one {Key, Value} object at s[i], decoded into dms.FfprobeCacheItem
ParseItem(s, i) ==
    LET shape == /\ Tok(s, i) = "{" /\ Tok(s, i + 1) = "Key"
                 /\ Tok(s, i + 2) = "{" /\ Tok(s, i + 3) = "Path"
                 /\ Tok(s, i + 4) \notin Punct
                 /\ Tok(s, i + 5) = "ModTime" /\ TokNum(Tok(s, i + 6)) >= 0
                 /\ Tok(s, i + 7) = "}" /\ Tok(s, i + 8) = "Value"
                 /\ Tok(s, i + 9) = "["
        ns == ParseNums(s, i + 10)
    IN IF shape /\ ns.ok /\ Tok(s, ns.next) = "}"
       THEN [ok |-> TRUE,
             val |-> [Key |-> [Path |-> Tok(s, i + 4), ModTime |-> TokNum(Tok(s, i + 6))],
                      Value |-> [Streams |-> ns.val, Marshalable |-> TRUE]],
             next |-> ns.next + 1]
       ELSE [ok |-> FALSE,
             val |-> [Key |-> [Path |-> "", ModTime |-> 0], Value |-> SmallValue],
             next |-> i]

RECURSIVE ParseItemList(_, _)
ParseItemList(s, i) ==
    IF Tok(s, i) = "]" THEN [ok |-> TRUE, val |-> <<>>]
    ELSE LET it == ParseItem(s, i)
         IN IF ~it.ok THEN [ok |-> FALSE, val |-> <<>>]
            ELSE LET r == ParseItemList(s, it.next)
                 IN [ok |-> r.ok, val |-> <<it.val>> \o r.val]

\* json.Decoder.Decode(&items) on the file's text: the first JSON value, which
\* must be null or an array of items
Decode(s) ==
    IF Tok(s, 1) = "null" THEN [err |-> FALSE, items |-> <<>>]
    ELSE IF Tok(s, 1) = "["
    THEN LET r == ParseItemList(s, 2)
         IN [err |-> ~r.ok, items |-> IF r.ok THEN r.val ELSE <<>>]
    ELSE [err |-> TRUE, items |-> <<>>]

NoFile == [exists |-> FALSE, data |-> <<>>]

File(data) == [exists |-> TRUE, data |-> data]

SvIdle == [pc |-> "idle", items |-> <<>>, err |-> "", prev |-> NoFile, full |-> <<>>,
           rm |-> "none"]

LdIdle == [pc |-> "idle", items |-> <<>>, idx |-> 1, err |-> "",
           missing |-> FALSE, before |-> EmptyTable]

\* ------------------------------------------------------- fFprobeCache.save

\* cache.Lock(); items := cache.c.Items(); cache.Unlock()
SaveItems ==
    /\ sv.pc = "items"
    /\ \E its \in RRCacheItems(table) :
          sv' = [sv EXCEPT !.pc = "create", !.items = its, !.err = "",
                           !.prev = fsPath, !.full = Encode(its).b,
                           !.rm = "none"]
    /\ UNCHANGED <<lockVars, cacheVars, fsVars, ld, phase, supVars>>

\* f, err := os.CreateTemp(dir, base); if err != nil { return err }
SaveCreateTemp ==
    /\ sv.pc = "create"
    /\ \/ /\ fsTmp' = File(<<>>)
          /\ sv' = [sv EXCEPT !.pc = "encode"]
       \/ /\ fsTmp' = fsTmp
          /\ sv' = [sv EXCEPT !.pc = "ret", !.err = "createtemp"]
    /\ UNCHANGED <<lockVars, cacheVars, goos, fsPath, ld, phase, supVars>>

\* how much of the text a failed write may leave: none of it, half of it, all
\* but its last byte
PartialLengths(b) == {0, Len(b) \div 2, Len(b) - 1}

\* err = enc.Encode(items): a marshal error writes nothing, a write error
\* leaves a part of the text in the temporary file
SaveEncode ==
    /\ sv.pc = "encode"
    /\ LET e == Encode(sv.items)
       IN IF e.err
          THEN /\ fsTmp' = fsTmp
               /\ sv' = [sv EXCEPT !.pc = "close", !.err = "marshal"]
          ELSE \/ /\ fsTmp' = File(e.b)
                  /\ sv' = [sv EXCEPT !.pc = "close"]
               \/ \E n \in PartialLengths(e.b) :
                     /\ fsTmp' = File(SubSeq(e.b, 1, n))
                     /\ sv' = [sv EXCEPT !.pc = "close", !.err = "write"]
    /\ UNCHANGED <<lockVars, cacheVars, goos, fsPath, ld, phase, supVars>>

SaveCloseNoGOOS ==
    /\ sv.pc = "close"
    /\ sv' = [sv EXCEPT !.pc = IF sv.err # "" THEN "cleanup" ELSE "remove"]
    /\ UNCHANGED <<lockVars, cacheVars, fsVars, ld, phase, supVars>>

\* f.Close(); if err != nil { os.Remove(f.Name()); return err }
SaveClose ==
    /\ sv.pc = "close"
    /\ sv' = [sv EXCEPT !.pc = IF sv.err # "" THEN "cleanup"
                                ELSE IF goos = "windows" THEN "remove"
                                ELSE "rename"]
    /\ UNCHANGED <<lockVars, cacheVars, fsVars, ld, phase, supVars>>

\* os.Remove(f.Name()) of the temporary file, its error dropped; rm is the
\* history of the call's outcome
RemoveTemp ==
    \/ fsTmp' = NoFile /\ sv' = [sv EXCEPT !.pc = "ret", !.rm = "ok"]
    \/ fsTmp' = fsTmp /\ sv' = [sv EXCEPT !.pc = "ret", !.rm = "failed"]

SaveCleanup ==
    /\ sv.pc = "cleanup"
    /\ RemoveTemp
    /\ UNCHANGED <<lockVars, cacheVars, goos, fsPath, ld, phase, supVars>>

\* if runtime.GOOS == "windows" { err = os.Remove(path); if err == os.ErrNotExist
\* { err = nil } }: os.Remove returns a *PathError, which never equals
\* os.ErrNotExist, so removing a missing file leaves err set
SaveRemoveDest ==
    /\ sv.pc = "remove"
    /\ \/ /\ fsPath.exists
          /\ fsPath' = NoFile
          /\ sv' = [sv EXCEPT !.pc = "rename"]
       \/ /\ fsPath' = fsPath
          /\ sv' = [sv EXCEPT !.pc = "failed", !.err = "remove"]
    /\ UNCHANGED <<lockVars, cacheVars, goos, fsTmp, ld, phase, supVars>>

\* if err == nil { err = os.Rename(f.Name(), path) }; log on success
SaveRename ==
    /\ sv.pc = "rename"
    /\ \/ /\ fsPath' = fsTmp
          /\ fsTmp' = NoFile
          /\ sv' = [sv EXCEPT !.pc = "ret"]
       \/ /\ UNCHANGED <<fsPath, fsTmp>>
          /\ sv' = [sv EXCEPT !.pc = "failed", !.err = "rename"]
    /\ UNCHANGED <<lockVars, cacheVars, goos, ld, phase, supVars>>

SaveFailedKeepsTemp ==
    /\ sv.pc = "failed"
    /\ sv' = [sv EXCEPT !.pc = "ret"]
    /\ UNCHANGED <<lockVars, cacheVars, fsVars, ld, phase, supVars>>

\* else { os.Remove(f.Name()) }; return err
SaveFailed ==
    /\ sv.pc = "failed"
    /\ RemoveTemp
    /\ UNCHANGED <<lockVars, cacheVars, goos, fsPath, ld, phase, supVars>>

save ==
    \/ SaveItems
    \/ SaveCreateTemp
    \/ SaveEncode
    \/ SaveClose
    \/ SaveCleanup
    \/ SaveRemoveDest
    \/ SaveRename
    \/ SaveFailed

\* ------------------------------------------------------- fFprobeCache.load

LoadOpenMissingOk ==
    /\ ld.pc = "open"
    /\ ld' = IF fsPath.exists
             THEN [ld EXCEPT !.pc = "decode", !.err = "", !.missing = FALSE,
                             !.before = table]
             ELSE [ld EXCEPT !.pc = "ret", !.err = "", !.missing = TRUE,
                             !.before = table]
    /\ UNCHANGED <<lockVars, cacheVars, fsVars, sv, phase, supVars>>

\* f, err := os.Open(path); if err != nil { return err }
LoadOpen ==
    /\ ld.pc = "open"
    /\ ld' = IF fsPath.exists
             THEN [ld EXCEPT !.pc = "decode", !.err = "", !.missing = FALSE,
                             !.before = table]
             ELSE [ld EXCEPT !.pc = "ret", !.err = "notexist", !.missing = TRUE,
                             !.before = table]
    /\ UNCHANGED <<lockVars, cacheVars, fsVars, sv, phase, supVars>>

LoadDecodeSkipFirst ==
    /\ ld.pc = "decode"
    /\ LET d == Decode(fsPath.data)
       IN ld' = IF d.err
                THEN [ld EXCEPT !.pc = "ret", !.err = "decode"]
                ELSE [ld EXCEPT !.pc = "items", !.items = d.items, !.idx = 2]
    /\ UNCHANGED <<lockVars, cacheVars, fsVars, sv, phase, supVars>>

LoadDecodeKeepsParsed ==
    /\ ld.pc = "decode"
    /\ LET d == Decode(fsPath.data)
       IN ld' = IF d.err
                THEN [ld EXCEPT !.pc = "items", !.err = "decode", !.idx = 1,
                                !.items = <<[Key |-> [Path |-> "a", ModTime |-> 1],
                                             Value |-> SmallValue]>>]
                ELSE [ld EXCEPT !.pc = "items", !.items = d.items, !.idx = 1]
    /\ UNCHANGED <<lockVars, cacheVars, fsVars, sv, phase, supVars>>

\* err = dec.Decode(&items); if err != nil { return err }
LoadDecode ==
    /\ ld.pc = "decode"
    /\ LET d == Decode(fsPath.data)
       IN ld' = IF d.err
                THEN [ld EXCEPT !.pc = "ret", !.err = "decode"]
                ELSE [ld EXCEPT !.pc = "items", !.items = d.items, !.idx = 1]
    /\ UNCHANGED <<lockVars, cacheVars, fsVars, sv, phase, supVars>>

\* for _, item := range items { cache.Set(item.Key, item.Value) }
LoadItem ==
    /\ ld.pc = "items"
    /\ ld.idx <= Len(ld.items)
    /\ SetTo(ld.items[ld.idx].Key, ld.items[ld.idx].Value)
    /\ ld' = [ld EXCEPT !.idx = ld.idx + 1]
    /\ UNCHANGED <<lockVars, got, fsVars, sv, phase, supVars>>

\* log.Printf("added %d items from cache", len(items)); return nil
LoadDone ==
    /\ ld.pc = "items"
    /\ ld.idx > Len(ld.items)
    /\ ld' = [ld EXCEPT !.pc = "ret"]
    /\ UNCHANGED <<lockVars, cacheVars, fsVars, sv, phase, supVars>>

load ==
    \/ LoadOpen
    \/ LoadDecode
    \/ LoadItem
    \/ LoadDone

\* ------------------------------------------------------------ initial state

NoKey == [Path |-> "", ModTime |-> 0]

NoGet == [key |-> NoKey, value |-> SmallValue, ok |-> FALSE]

NoSet == [key |-> NoKey, value |-> SmallValue, size |-> 0, overflow |-> FALSE,
          evicted |-> {}, rewrite |-> FALSE, done |-> FALSE]

NoIdeal == [k \in {} |-> SmallValue]

NoHist == [stopClose |-> "none", stopClosed |-> 0, stopSave |-> "none",
           stopRet |-> "none", fatal |-> ""]

\* a new, empty cache: &fFprobeCache{c: rrcache.New(64 << 20)}
NewCacheState ==
    /\ table = EmptyTable
    /\ got = NoGet
    /\ ideal = NoIdeal
    /\ over = FALSE
    /\ lastSet = NoSet

\* before svc.Run has called Start
SupIdle ==
    /\ proc = "alive"
    /\ mainPc = "start"
    /\ quit = "nil"
    /\ wg = 0
    /\ topPc = "none"
    /\ runPc = "none"
    /\ monPc = "none"
    /\ monIfs = {}
    /\ cacheReady = FALSE
    /\ dmsServer = 0
    /\ servers = <<>>
    /\ tasks = <<>>
    /\ hist = NoHist

\* the tables a run of Sets, each entry's size as Set computes it, can leave
ReachableTables ==
    UNION {{[k \in D |-> [value |-> f[k], size |-> SetSize(k, f[k])]] :
                f \in [D -> Values]} : D \in SUBSET Keys}

FittingTables ==
    {t \in ReachableTables : TotalSize(t) <= Capacity \/ Cardinality(DOMAIN t) = 1}

\* a snapshot an earlier run saved
OldSnapshot ==
    Encode(<<[Key |-> [Path |-> "a", ModTime |-> 1], Value |-> MediumValue],
             [Key |-> [Path |-> "b", ModTime |-> 1], Value |-> SmallValue]>>).b

\* what may be at the cache path: nothing, an earlier snapshot, a damaged one
InitFiles == {NoFile, File(OldSnapshot), File(SubSeq(OldSnapshot, 1, 7))}

\* ------------------------------ fFprobeCache's lock: concurrent Get, Set, save

Goroutines == 1..NumGoroutines

CsIdle == [pc |-> "idle", key |-> NoKey, value |-> SmallValue]

\* no goroutine is in a cache call
LockIdle ==
    /\ mu = 0
    /\ cs = [p \in Goroutines |-> CsIdle]
    /\ committed = EmptyTable

\* sync.Mutex.Lock: blocks while the mutex is held
Lock(p) == mu = 0 /\ mu' = p

\* sync.Mutex.Unlock
Unlock(p) == mu' = 0

\* Get: fc.Lock()
GetEnter(p, key) ==
    /\ cs[p].pc = "idle"
    /\ Lock(p)
    /\ cs' = [cs EXCEPT ![p] = [pc |-> "get", key |-> key, value |-> SmallValue]]
    /\ UNCHANGED <<cacheVars, committed, fsVars, sv, ld, phase, supVars>>

\* Get: fc.c.Get(key)
GetRead(p) ==
    /\ cs[p].pc = "get"
    /\ got' = [key |-> cs[p].key] @@ RRCacheGet(table, cs[p].key)
    /\ cs' = [cs EXCEPT ![p].pc = "got"]
    /\ UNCHANGED <<table, ideal, over, lastSet>>
    /\ UNCHANGED <<mu, committed, fsVars, sv, ld, phase, supVars>>

\* Get: defer fc.Unlock(); the result goes to the caller
GetLeave(p) ==
    /\ cs[p].pc = "got"
    /\ Unlock(p)
    /\ cs' = [cs EXCEPT ![p] = CsIdle]
    /\ got' = NoGet
    /\ UNCHANGED <<table, ideal, over, lastSet>>
    /\ UNCHANGED <<committed, fsVars, sv, ld, phase, supVars>>

SetEnterNoLock(p, key, value) ==
    /\ cs[p].pc = "idle"
    /\ cs' = [cs EXCEPT ![p] = [pc |-> "set", key |-> key, value |-> value]]
    /\ UNCHANGED <<cacheVars, mu, committed, fsVars, sv, ld, phase, supVars>>

\* Set: fc.Lock()
SetEnter(p, key, value) ==
    /\ cs[p].pc = "idle"
    /\ Lock(p)
    /\ cs' = [cs EXCEPT ![p] = [pc |-> "set", key |-> key, value |-> value]]
    /\ UNCHANGED <<cacheVars, committed, fsVars, sv, ld, phase, supVars>>

\* Set: the size is computed and fc.c.Set(key, value, size) inserts the entry
SetInsert(p) ==
    /\ cs[p].pc = "set"
    /\ table' = Inserted(table, cs[p].key, cs[p].value, SetSize(cs[p].key, cs[p].value))
    /\ cs' = [cs EXCEPT ![p].pc = "evict"]
    /\ UNCHANGED <<got, ideal, over, lastSet>>
    /\ UNCHANGED <<mu, committed, fsVars, sv, ld, phase, supVars>>

\* fc.c.Set goes on evicting: the total exceeds the capacity and another entry
\* is left to evict
Evicting(p) ==
    TotalSize(table) > Capacity /\ (DOMAIN table) \ {cs[p].key} # {}

\* fc.c.Set evicts one randomly chosen other entry
SetEvict(p) ==
    /\ cs[p].pc = "evict"
    /\ Evicting(p)
    /\ \E x \in (DOMAIN table) \ {cs[p].key} : table' = Without(table, x)
    /\ UNCHANGED <<got, ideal, over, lastSet>>
    /\ UNCHANGED <<lockVars, fsVars, sv, ld, phase, supVars>>

\* Set: fc.c.Set has returned; defer fc.Unlock()
SetLeave(p) ==
    /\ cs[p].pc = "evict"
    /\ ~Evicting(p)
    /\ Unlock(p)
    /\ committed' = table
    /\ cs' = [cs EXCEPT ![p] = CsIdle]
    /\ UNCHANGED <<cacheVars, fsVars, sv, ld, phase, supVars>>

\* save: cache.Lock()
ItemsEnter(p) ==
    /\ cs[p].pc = "idle"
    /\ Lock(p)
    /\ cs' = [cs EXCEPT ![p] = [pc |-> "items", key |-> NoKey, value |-> SmallValue]]
    /\ UNCHANGED <<cacheVars, committed, fsVars, sv, ld, phase, supVars>>

\* save: items := cache.c.Items()
ItemsRead(p) ==
    /\ cs[p].pc = "items"
    /\ \E its \in RRCacheItems(table) : sv' = [sv EXCEPT !.items = its]
    /\ cs' = [cs EXCEPT ![p].pc = "snapshot"]
    /\ UNCHANGED <<cacheVars, mu, committed, fsVars, ld, phase, supVars>>

\* save: cache.Unlock(); the snapshot goes to the rest of save, which holds no
\* lock
ItemsLeave(p) ==
    /\ cs[p].pc = "snapshot"
    /\ Unlock(p)
    /\ cs' = [cs EXCEPT ![p] = CsIdle]
    /\ sv' = SvIdle
    /\ UNCHANGED <<cacheVars, committed, fsVars, ld, phase, supVars>>

InitLock ==
    /\ NewCacheState
    /\ goos = "linux" /\ fsPath = NoFile /\ fsTmp = NoFile
    /\ sv = SvIdle /\ ld = LdIdle /\ phase = "loaded"
    /\ SupIdle
    /\ LockIdle

NextLock ==
    \/ \E p \in Goroutines, k \in Keys : GetEnter(p, k)
    \/ \E p \in Goroutines : GetRead(p)
    \/ \E p \in Goroutines : GetLeave(p)
    \/ \E p \in Goroutines, k \in Keys, v \in Values : SetEnter(p, k, v)
    \/ \E p \in Goroutines : SetInsert(p)
    \/ \E p \in Goroutines : SetEvict(p)
    \/ \E p \in Goroutines : SetLeave(p)
    \/ \E p \in Goroutines : ItemsEnter(p)
    \/ \E p \in Goroutines : ItemsRead(p)
    \/ \E p \in Goroutines : ItemsLeave(p)

SpecLock == InitLock /\ [][NextLock]_vars

\* --------------------------- callers of save and load: Stop and runErr

\* Stop: p.cache.save(config.FFprobeCachePath)
ShutdownSave ==
    /\ phase = "shutdown"
    /\ phase' = "saving"
    /\ sv' = [sv EXCEPT !.pc = "items"]
    /\ UNCHANGED <<lockVars, cacheVars, fsVars, ld, supVars>>

\* the process ends; the next one makes its cache in runErr:
\* p.cache = &fFprobeCache{c: rrcache.New(64 << 20)}
Restart ==
    /\ phase = "saving"
    /\ sv.pc = "ret"
    /\ phase' = "startup"
    /\ table' = EmptyTable /\ got' = NoGet /\ ideal' = NoIdeal
    /\ over' = FALSE /\ lastSet' = NoSet
    /\ UNCHANGED <<lockVars, fsVars, sv, ld, supVars>>

\* runErr: p.cache.load(config.FFprobeCachePath)
StartupLoad ==
    /\ phase = "startup"
    /\ phase' = "loading"
    /\ ld' = [ld EXCEPT !.pc = "open"]
    /\ UNCHANGED <<lockVars, cacheVars, fsVars, sv, supVars>>

\* runErr: if err != nil { log.Print(err) }
StartupLoaded ==
    /\ phase = "loading"
    /\ ld.pc = "ret"
    /\ phase' = "loaded"
    /\ UNCHANGED <<lockVars, cacheVars, fsVars, sv, ld, supVars>>

\* ------------------------- the cache: loaded at startup, then used by the server

InitCache ==
    /\ NewCacheState
    /\ goos = "linux" /\ fsPath \in InitFiles /\ fsTmp = NoFile
    /\ sv = SvIdle /\ ld = LdIdle /\ phase = "startup"
    /\ SupIdle
    /\ LockIdle

NextCache ==
    \/ StartupLoad
    \/ load
    \/ StartupLoaded
    \/ phase = "loaded" /\ \E k \in Keys, v \in Values : Set(k, v)
    \/ phase = "loaded" /\ \E k \in Keys : Get(k)

SpecCache == InitCache /\ [][NextCache]_vars

\* ------------------------------------------ a shutdown and the next startup

InitPersist ==
    /\ table \in FittingTables
    /\ got = NoGet
    /\ ideal = [k \in DOMAIN table |-> table[k].value]
    /\ over = (TotalSize(table) > Capacity)
    /\ lastSet = NoSet
    /\ goos \in {"windows", "linux"}
    /\ fsPath \in InitFiles
    /\ fsTmp = NoFile
    /\ sv = SvIdle /\ ld = LdIdle /\ phase = "shutdown"
    /\ SupIdle
    /\ LockIdle

NextPersist ==
    \/ ShutdownSave
    \/ save
    \/ Restart
    \/ StartupLoad
    \/ load
    \/ StartupLoaded

SpecPersist == InitPersist /\ [][NextPersist]_vars

\* ------------------------------------------------- the service: main.go

Ifaces == 1..MaxIfs

\* getInterfaces(config.IfName): the interfaces that are up, whichever they
\* are at the time of the call (a lookup error is fatal)
UpInterfaces == SUBSET Ifaces

\* &dms.Server{Interfaces: ifs, HTTPConn: net.Listen(...), FFProbeCache: p.cache, ...}
NewServer(ifs) == [ifs |-> ifs, initCalls |-> 0, inited |-> FALSE,
                   closeCalls |-> 0, closedBy |-> {}, runCalls |-> 0]

Closed(srvs, i, who) ==
    [srvs EXCEPT ![i].closeCalls = @ + 1, ![i].closedBy = @ \cup {who}]

persistVars == <<cacheVars, fsVars, sv, ld, phase>>

\* The process ends (log.Fatal, a panic, or main returning): its memory and
\* its goroutines are gone, the files and the history h stay.
Die(kind, h) ==
    /\ proc' = kind
    /\ hist' = h
    /\ mainPc' = "dead" /\ quit' = "nil" /\ wg' = 0 /\ topPc' = "none"
    /\ runPc' = "none" /\ monPc' = "none" /\ monIfs' = {} /\ cacheReady' = FALSE
    /\ dmsServer' = 0 /\ servers' = <<>> /\ tasks' = <<>>
    /\ table' = EmptyTable /\ got' = NoGet /\ ideal' = NoIdeal /\ over' = FALSE
    /\ lastSet' = NoSet
    /\ sv' = SvIdle /\ ld' = LdIdle
    /\ UNCHANGED <<lockVars, fsVars, phase>>

Fatal(cause) == Die("fatal", [hist EXCEPT !.fatal = cause])

\* program.Start: p.quit = make(chan struct{}); p.wg.Add(1); go func() {...}()
Start ==
    /\ proc = "alive" /\ mainPc = "start"
    /\ quit' = "open"
    /\ wg' = wg + 1
    /\ topPc' = "spawn_run"
    /\ mainPc' = "waiting"
    /\ UNCHANGED <<lockVars, persistVars, proc, runPc, monPc, monIfs, cacheReady, dmsServer,
                   servers, tasks, hist>>

\* Start's goroutine: log.Println("Starting..."); go p.run()
TopSpawnRun ==
    /\ proc = "alive" /\ topPc = "spawn_run"
    /\ topPc' = "recv_quit"
    /\ runPc' = "new_cache"
    /\ UNCHANGED <<lockVars, persistVars, proc, mainPc, quit, wg, monPc, monIfs, cacheReady,
                   dmsServer, servers, tasks, hist>>

\* Start's goroutine: <-p.quit
TopRecvQuit ==
    /\ proc = "alive" /\ topPc = "recv_quit"
    /\ quit = "closed"
    /\ topPc' = "done"
    /\ UNCHANGED <<lockVars, persistVars, proc, mainPc, quit, wg, runPc, monPc, monIfs,
                   cacheReady, dmsServer, servers, tasks, hist>>

TopExitNoDone ==
    /\ proc = "alive" /\ topPc = "done"
    /\ topPc' = "exited"
    /\ UNCHANGED <<lockVars, persistVars, proc, mainPc, quit, wg, runPc, monPc, monIfs,
                   cacheReady, dmsServer, servers, tasks, hist>>

\* Start's goroutine: log.Println("Quit signal received..."); p.wg.Done()
TopDone ==
    /\ proc = "alive" /\ topPc = "done"
    /\ wg' = wg - 1
    /\ topPc' = "exited"
    /\ UNCHANGED <<lockVars, persistVars, proc, mainPc, quit, runPc, monPc, monIfs,
                   cacheReady, dmsServer, servers, tasks, hist>>

\* svc.Run: a termination signal (or the service's stop request) arrives and
\* Stop is called
Signal ==
    /\ proc = "alive" /\ mainPc = "waiting"
    /\ mainPc' = "stop_close"
    /\ UNCHANGED <<lockVars, persistVars, proc, quit, wg, topPc, runPc, monPc, monIfs,
                   cacheReady, dmsServer, servers, tasks, hist>>

StopCloseLogged ==
    /\ proc = "alive" /\ mainPc = "stop_close"
    /\ \/ /\ dmsServer = 0
          /\ Die("panic", [hist EXCEPT !.fatal = "Stop: nil dmsServer"])
       \/ /\ dmsServer # 0
          /\ servers' = Closed(servers, dmsServer, "stop")
          /\ \/ hist' = [hist EXCEPT !.stopClose = "ok", !.stopClosed = dmsServer]
             \/ hist' = [hist EXCEPT !.stopClose = "err", !.stopClosed = dmsServer]
          /\ mainPc' = "stop_save"
          /\ UNCHANGED <<lockVars, persistVars, proc, quit, wg, topPc, runPc, monPc, monIfs,
                         cacheReady, dmsServer, tasks>>

\* Stop: err := p.dmsServer.Close(); if err != nil { log.Fatal(err) }
\* (p.dmsServer is nil until runErr has constructed the first server)
StopClose ==
    /\ proc = "alive" /\ mainPc = "stop_close"
    /\ \/ /\ dmsServer = 0
          /\ Die("panic", [hist EXCEPT !.fatal = "Stop: nil dmsServer"])
       \/ /\ dmsServer # 0
          /\ servers' = Closed(servers, dmsServer, "stop")
          /\ hist' = [hist EXCEPT !.stopClose = "ok", !.stopClosed = dmsServer]
          /\ mainPc' = "stop_save"
          /\ UNCHANGED <<lockVars, persistVars, proc, quit, wg, topPc, runPc, monPc, monIfs,
                         cacheReady, dmsServer, tasks>>
       \/ /\ dmsServer # 0
          /\ Die("fatal", [hist EXCEPT !.stopClose = "err", !.stopClosed = dmsServer,
                                       !.fatal = "Stop: Close"])

\* Stop: p.cache.save(config.FFprobeCachePath), entered
StopSave ==
    /\ proc = "alive" /\ mainPc = "stop_save"
    /\ \/ /\ cacheReady
          /\ sv' = [sv EXCEPT !.pc = "items"]
          /\ hist' = [hist EXCEPT !.stopSave = "called"]
          /\ mainPc' = "stop_saving"
          /\ UNCHANGED <<lockVars, cacheVars, fsVars, ld, phase, proc, quit, wg, topPc, runPc,
                         monPc, monIfs, cacheReady, dmsServer, servers, tasks>>
       \/ /\ ~cacheReady
          /\ Die("panic", [hist EXCEPT !.fatal = "Stop: nil cache"])

StopSavedReturnsErr ==
    /\ proc = "alive" /\ mainPc = "stop_saving"
    /\ sv.pc = "ret"
    /\ hist' = [hist EXCEPT !.stopSave = IF sv.err = "" THEN "ok" ELSE "err",
                            !.stopRet = IF sv.err = "" THEN "none" ELSE "err"]
    /\ mainPc' = IF sv.err = "" THEN "stop_quit" ELSE "stopped"
    /\ UNCHANGED <<lockVars, persistVars, proc, quit, wg, topPc, runPc, monPc, monIfs,
                   cacheReady, dmsServer, servers, tasks>>

\* Stop: if err := p.cache.save(...); err != nil { p.logger.Print(err) }
StopSaved ==
    /\ proc = "alive" /\ mainPc = "stop_saving"
    /\ sv.pc = "ret"
    /\ hist' = [hist EXCEPT !.stopSave = IF sv.err = "" THEN "ok" ELSE "err"]
    /\ mainPc' = "stop_quit"
    /\ UNCHANGED <<lockVars, persistVars, proc, quit, wg, topPc, runPc, monPc, monIfs,
                   cacheReady, dmsServer, servers, tasks>>

\* Stop: close(p.quit)
StopQuit ==
    /\ proc = "alive" /\ mainPc = "stop_quit"
    /\ quit' = "closed"
    /\ mainPc' = "stop_wait"
    /\ UNCHANGED <<lockVars, persistVars, proc, wg, topPc, runPc, monPc, monIfs, cacheReady,
                   dmsServer, servers, tasks, hist>>

\* Stop: p.wg.Wait(); p.logger.Println("Stopped."); return nil
StopWait ==
    /\ proc = "alive" /\ mainPc = "stop_wait"
    /\ wg = 0
    /\ mainPc' = "stopped"
    /\ hist' = [hist EXCEPT !.stopRet = "nil"]
    /\ UNCHANGED <<lockVars, persistVars, proc, quit, wg, topPc, runPc, monPc, monIfs,
                   cacheReady, dmsServer, servers, tasks>>

\* svc.Run returns after Stop, and main with it: the process ends
Exit ==
    /\ proc = "alive" /\ mainPc = "stopped"
    /\ Die("exited", hist)

\* ----------------------------------------------------- program.runErr

\* runErr: p.cache = &fFprobeCache{c: rrcache.New(64 << 20)}
RunNewCache ==
    /\ proc = "alive" /\ runPc = "new_cache"
    /\ cacheReady' = TRUE
    /\ table' = EmptyTable
    /\ runPc' = "load"
    /\ UNCHANGED <<lockVars, got, ideal, over, lastSet, fsVars, sv, ld, phase, proc, mainPc,
                   quit, wg, topPc, monPc, monIfs, dmsServer, servers, tasks, hist>>

\* runErr: p.cache.load(config.FFprobeCachePath), entered
RunLoad ==
    /\ proc = "alive" /\ runPc = "load"
    /\ ld' = [ld EXCEPT !.pc = "open"]
    /\ runPc' = "loading"
    /\ UNCHANGED <<lockVars, cacheVars, fsVars, sv, phase, proc, mainPc, quit, wg, topPc,
                   monPc, monIfs, cacheReady, dmsServer, servers, tasks, hist>>

\* runErr: if err := p.cache.load(...); err != nil { log.Print(err) }
RunLoaded ==
    /\ proc = "alive" /\ runPc = "loading"
    /\ ld.pc = "ret"
    /\ runPc' = "new_server"
    /\ UNCHANGED <<lockVars, persistVars, proc, mainPc, quit, wg, topPc, monPc, monIfs,
                   cacheReady, dmsServer, servers, tasks, hist>>

\* runErr: p.dmsServer = p.newDmsServer(getInterfaces(config.IfName)); a failed
\* interface lookup or net.Listen is fatal
RunNewServer ==
    /\ proc = "alive" /\ runPc = "new_server"
    /\ \/ \E ifs \in UpInterfaces :
             /\ servers' = Append(servers, NewServer(ifs))
             /\ dmsServer' = Len(servers) + 1
             /\ runPc' = "init"
             /\ UNCHANGED <<lockVars, persistVars, proc, mainPc, quit, wg, topPc, monPc,
                            monIfs, cacheReady, tasks, hist>>
       \/ Fatal("runErr: newDmsServer")

\* runErr: if err := p.dmsServer.Init(); err != nil { log.Fatalf(...) }
RunInit ==
    /\ proc = "alive" /\ runPc = "init"
    /\ \/ /\ servers' = [servers EXCEPT ![dmsServer].initCalls = @ + 1,
                                        ![dmsServer].inited = TRUE]
          /\ runPc' = "spawn_task"
          /\ UNCHANGED <<lockVars, persistVars, proc, mainPc, quit, wg, topPc, monPc, monIfs,
                         cacheReady, dmsServer, tasks, hist>>
       \/ Fatal("runErr: Init")

\* runErr: go func() { if err := p.dmsServer.Run(); err != nil { log.Fatal(err) } }()
RunSpawnTask ==
    /\ proc = "alive" /\ runPc = "spawn_task"
    /\ tasks' = Append(tasks, [state |-> "spawned", inst |-> 0])
    /\ runPc' = "spawn_monitor"
    /\ UNCHANGED <<lockVars, persistVars, proc, mainPc, quit, wg, topPc, monPc, monIfs,
                   cacheReady, dmsServer, servers, hist>>

\* runErr: go func() { for { ... } }(); return nil
RunSpawnMonitor ==
    /\ proc = "alive" /\ runPc = "spawn_monitor"
    /\ monPc' = "sleep"
    /\ runPc' = "returned"
    /\ UNCHANGED <<lockVars, persistVars, proc, mainPc, quit, wg, topPc, monIfs, cacheReady,
                   dmsServer, servers, tasks, hist>>

\* a launched goroutine starts: it reads p.dmsServer and calls Run on it
TaskRun(i) ==
    /\ proc = "alive" /\ i \in DOMAIN tasks
    /\ tasks[i].state = "spawned"
    /\ tasks' = [tasks EXCEPT ![i] = [state |-> "running", inst |-> dmsServer]]
    /\ servers' = [servers EXCEPT ![dmsServer].runCalls = @ + 1]
    /\ UNCHANGED <<lockVars, persistVars, proc, mainPc, quit, wg, topPc, runPc, monPc, monIfs,
                   cacheReady, dmsServer, hist>>

\* Run returns: nil once its server has been closed, or an error, which is fatal
TaskReturn(i) ==
    /\ proc = "alive" /\ i \in DOMAIN tasks
    /\ tasks[i].state = "running"
    /\ \/ /\ servers[tasks[i].inst].closeCalls > 0
          /\ tasks' = [tasks EXCEPT ![i] = [state |-> "returned", inst |-> 0]]
          /\ UNCHANGED <<lockVars, persistVars, proc, mainPc, quit, wg, topPc, runPc, monPc,
                         monIfs, cacheReady, dmsServer, servers, hist>>
       \/ Fatal("Run")

\* ------------------------------------------ the interface monitor of runErr

\* time.Sleep(config.NotifyInterval); ifs := getInterfaces(config.IfName)
MonTick ==
    /\ proc = "alive" /\ monPc = "sleep"
    /\ \/ \E ifs \in UpInterfaces :
             /\ monIfs' = ifs
             /\ monPc' = "check"
             /\ UNCHANGED <<lockVars, persistVars, proc, mainPc, quit, wg, topPc, runPc,
                            cacheReady, dmsServer, servers, tasks, hist>>
       \/ Fatal("monitor: getInterfaces")

MonCheckAnyChange ==
    /\ proc = "alive" /\ monPc = "check"
    /\ IF Cardinality(servers[dmsServer].ifs) # Cardinality(monIfs)
       THEN monPc' = "close" /\ monIfs' = monIfs
       ELSE monPc' = "sleep" /\ monIfs' = {}
    /\ UNCHANGED <<lockVars, persistVars, proc, mainPc, quit, wg, topPc, runPc, cacheReady,
                   dmsServer, servers, tasks, hist>>

\* if len(p.dmsServer.Interfaces) < len(ifs) { ... }: when not, the iteration
\* ends and its ifs with it
MonCheck ==
    /\ proc = "alive" /\ monPc = "check"
    /\ IF Cardinality(servers[dmsServer].ifs) < Cardinality(monIfs)
       THEN monPc' = "close" /\ monIfs' = monIfs
       ELSE monPc' = "sleep" /\ monIfs' = {}
    /\ UNCHANGED <<lockVars, persistVars, proc, mainPc, quit, wg, topPc, runPc, cacheReady,
                   dmsServer, servers, tasks, hist>>

MonCloseSkipped ==
    /\ proc = "alive" /\ monPc = "close"
    /\ \/ /\ monPc' = "new_server"
          /\ UNCHANGED <<lockVars, persistVars, proc, mainPc, quit, wg, topPc, runPc, monIfs,
                         cacheReady, dmsServer, servers, tasks, hist>>
       \/ Fatal("monitor: Close")

MonCloseLogged ==
    /\ proc = "alive" /\ monPc = "close"
    /\ servers' = Closed(servers, dmsServer, "monitor")
    /\ monPc' = "new_server"
    /\ \/ hist' = hist
       \/ hist' = [hist EXCEPT !.fatal = "monitor: Close"]
    /\ UNCHANGED <<lockVars, persistVars, proc, mainPc, quit, wg, topPc, runPc, monIfs,
                   cacheReady, dmsServer, tasks>>

\* if err := p.dmsServer.Close(); err != nil { log.Fatalf(...) }
MonClose ==
    /\ proc = "alive" /\ monPc = "close"
    /\ \/ /\ servers' = Closed(servers, dmsServer, "monitor")
          /\ monPc' = "new_server"
          /\ UNCHANGED <<lockVars, persistVars, proc, mainPc, quit, wg, topPc, runPc, monIfs,
                         cacheReady, dmsServer, tasks, hist>>
       \/ Fatal("monitor: Close")

\* p.dmsServer = p.newDmsServer(ifs); a failed net.Listen is fatal
MonNewServer ==
    /\ proc = "alive" /\ monPc = "new_server"
    /\ \/ /\ servers' = Append(servers, NewServer(monIfs))
          /\ dmsServer' = Len(servers) + 1
          /\ monPc' = "init"
          /\ UNCHANGED <<lockVars, persistVars, proc, mainPc, quit, wg, topPc, runPc, monIfs,
                         cacheReady, tasks, hist>>
       \/ Fatal("monitor: newDmsServer")

\* if err := p.dmsServer.Init(); err != nil { log.Fatalf(...) }
MonInit ==
    /\ proc = "alive" /\ monPc = "init"
    /\ \/ /\ servers' = [servers EXCEPT ![dmsServer].initCalls = @ + 1,
                                        ![dmsServer].inited = TRUE]
          /\ monPc' = "spawn_task"
          /\ UNCHANGED <<lockVars, persistVars, proc, mainPc, quit, wg, topPc, runPc, monIfs,
                         cacheReady, dmsServer, tasks, hist>>
       \/ Fatal("monitor: Init")

\* go func() { if err := p.dmsServer.Run(); err != nil { log.Fatal(err) } }();
\* the loop goes back to its Sleep
MonSpawnTask ==
    /\ proc = "alive" /\ monPc = "spawn_task"
    /\ tasks' = Append(tasks, [state |-> "spawned", inst |-> 0])
    /\ monPc' = "sleep"
    /\ monIfs' = {}
    /\ UNCHANGED <<lockVars, persistVars, proc, mainPc, quit, wg, topPc, runPc, cacheReady,
                   dmsServer, servers, hist>>

\* ------------------------------------------------------ the whole service

InitSup ==
    /\ NewCacheState
    /\ goos \in {"windows", "linux"}
    /\ fsPath \in InitFiles
    /\ fsTmp = NoFile
    /\ sv = SvIdle /\ ld = LdIdle /\ phase = "none"
    /\ SupIdle
    /\ LockIdle

NextSup ==
    \/ Start
    \/ TopSpawnRun
    \/ TopRecvQuit
    \/ TopDone
    \/ Signal
    \/ StopClose
    \/ StopSave
    \/ proc = "alive" /\ save
    \/ StopSaved
    \/ StopQuit
    \/ StopWait
    \/ Exit
    \/ RunNewCache
    \/ RunLoad
    \/ proc = "alive" /\ load
    \/ RunLoaded
    \/ RunNewServer
    \/ RunInit
    \/ RunSpawnTask
    \/ RunSpawnMonitor
    \/ \E i \in 1..(MaxIfs + 1) : TaskRun(i)
    \/ \E i \in 1..(MaxIfs + 1) : TaskReturn(i)
    \/ MonTick
    \/ MonCheck
    \/ MonClose
    \/ MonNewServer
    \/ MonInit
    \/ MonSpawnTask

Spec == InitSup /\ [][NextSup]_vars

\* The Go scheduler runs every goroutine that can take a step: Stop (on the
\* goroutine of svc.Run, with the save it calls) and the goroutine of Start
\* are not starved.
SpecFair ==
    /\ Spec
    /\ WF_vars(StopSave)
    /\ WF_vars(proc = "alive" /\ mainPc = "stop_saving" /\ save)
    /\ WF_vars(StopSaved)
    /\ WF_vars(StopQuit)
    /\ WF_vars(StopWait)
    /\ WF_vars(TopRecvQuit)
    /\ WF_vars(TopDone)

\* ------------------------------------------------------------------ claims

ValueOf(t) == [k \in DOMAIN t |-> t[k].value]

\* what the cache holds, measured in serialized bytes
HeldSize == SumEntrySizes(ValueOf(table), DOMAIN table)

\* C1: after every completed Set whose own computed size is at most the
\* capacity (a Set of the server or one of Load's), the serialized sizes of
\* the entries the cache holds sum to at most the capacity.
C1_CapacityInvariant ==
    lastSet.done /\ lastSet.size <= Capacity => HeldSize <= Capacity

\* C1's case: a Set that overflowed the cache and whose evictions brought the
\* total back within the capacity, after an oversized entry had been admitted.
C1_Witness ==
    /\ lastSet.done /\ lastSet.size <= Capacity /\ lastSet.overflow
    /\ over /\ HeldSize <= Capacity /\ Cardinality(DOMAIN table) >= 2

\* C2: as long as the cumulative size of the Sets has never exceeded the
\* capacity, every key that was set is found by Get, with the value of its
\* most recent Set.
C2_NoSpuriousEviction ==
    ~over => \A k \in DOMAIN ideal : GetResult(k) = [value |-> ideal[k], ok |-> TRUE]

\* C2's case: three keys set, one of them overwritten with another value, all
\* within the capacity and all still held.
C2_Witness ==
    /\ ~over /\ Cardinality(DOMAIN ideal) = 3
    /\ lastSet.done /\ lastSet.rewrite
    /\ \A k \in DOMAIN ideal : GetResult(k).ok

\* C3: a Set(k, v) of own size at most the capacity that pushes the total
\* above the capacity evicts only other entries, at least one of them, and
\* leaves k in the cache with value v.
C3_NewEntryAdmitted ==
    lastSet.done /\ lastSet.size <= Capacity /\ lastSet.overflow =>
        /\ GetResult(lastSet.key) = [value |-> lastSet.value, ok |-> TRUE]
        /\ lastSet.key \notin lastSet.evicted
        /\ lastSet.evicted # {}
        /\ TotalSize(table) <= Capacity

\* C3's case: a third entry set into a cache whose two entries left no room
\* for it; exactly one of the two was evicted.
C3_Witness ==
    /\ lastSet.done /\ lastSet.size <= Capacity /\ lastSet.overflow
    /\ Cardinality(lastSet.evicted) = 1
    /\ Cardinality(DOMAIN table) = 2
    /\ lastSet.key \in DOMAIN table

\* C4 as stated: a Close error in Stop is logged and is not fatal, so that Stop
\* goes on to the save, the quit signal and the wait whatever Close returned.
C4_CloseErrorNotFatal ==
    hist.stopClose = "err" => hist.fatal # "Stop: Close"

\* C4, amended: Stop returns only after Close has succeeded, the cache save has
\* been attempted, quit has been signalled and the run loop has exited; a Close
\* error is fatal (log.Fatal), and the process ends with no save attempted and
\* quit not signalled.
C4_StopCompletesAfterClose ==
    /\ mainPc = "stopped" =>
          /\ hist.stopClose = "ok" /\ hist.stopSave \in {"ok", "err"}
          /\ quit = "closed" /\ topPc = "exited" /\ wg = 0
    /\ hist.stopRet # "none" =>
          hist.stopRet = "nil" /\ hist.stopClose = "ok" /\ hist.stopSave \in {"ok", "err"}
    /\ hist.stopSave # "none" => hist.stopClose = "ok"
    /\ hist.stopClose = "err" =>
          /\ proc = "fatal" /\ hist.fatal = "Stop: Close"
          /\ hist.stopSave = "none" /\ hist.stopRet = "none"

\* C4's case: Stop has returned after a Close and a save that succeeded, the
\* new snapshot at the cache path.
C4_Witness ==
    /\ mainPc = "stopped" /\ hist.stopClose = "ok" /\ hist.stopSave = "ok"
    /\ fsPath = File(sv.full)

AllTasksReturned == \A i \in DOMAIN tasks : tasks[i].state = "returned"

\* C5: once Stop has returned, the top-level run loop, the startup, the
\* interface monitor and every server's run task have exited.
C5_NoActivityAfterStop ==
    mainPc = "stopped" =>
        /\ topPc = "exited"
        /\ runPc \in {"none", "returned"}
        /\ monPc = "none"
        /\ AllTasksReturned

\* the monitor's comparison: more interfaces are up than the current server has
Growth == Cardinality(monIfs) > Cardinality(servers[dmsServer].ifs)

\* C6: the monitor closes and replaces the server on a tick exactly when it
\* sees more interfaces up than the current server is bound to. Every server
\* after the first has more interfaces than the one before it, which the
\* monitor closed; the monitor closes a server only on its way to replacing
\* it; after a tick the current server is initialised with a run task
\* launched; and a tick that sees no growth goes back to sleep with the server
\* neither closed nor replaced.
C6_ReplaceExactlyOnGrowth ==
    /\ [](\A i \in DOMAIN servers :
            /\ i > 1 => /\ Cardinality(servers[i].ifs) > Cardinality(servers[i - 1].ifs)
                        /\ "monitor" \in servers[i - 1].closedBy
            /\ "monitor" \in servers[i].closedBy =>
                  \/ i < Len(servers)
                  \/ i = dmsServer /\ monPc = "new_server"
                       /\ Cardinality(monIfs) > Cardinality(servers[i].ifs))
    /\ [](monPc = "close" => Growth)
    /\ [](monPc \in {"init", "spawn_task"} => servers[dmsServer].ifs = monIfs)
    /\ [](monPc = "sleep" =>
            /\ dmsServer = Len(servers)
            /\ servers[dmsServer].inited
            /\ Len(tasks) = Len(servers))
    /\ [][monPc = "check" /\ proc' = "alive" =>
            /\ Growth => monPc' \in {"check", "close"}
            /\ ~Growth => monPc' \in {"check", "sleep"}
            /\ monPc' # "check" => dmsServer' = dmsServer /\ servers' = servers]_vars

\* C6's case: a tick that saw growth has ended: the first server closed by
\* the monitor, the second current, initialised, with more interfaces and its
\* run task launched.
C6_Witness ==
    /\ monPc = "sleep" /\ Len(servers) = 2 /\ dmsServer = 2
    /\ "monitor" \in servers[1].closedBy
    /\ servers[2].inited /\ Len(tasks) = 2
    /\ Cardinality(servers[2].ifs) > Cardinality(servers[1].ifs)

\* a save has taken its snapshot and has not (yet) renamed the new file to path
SaveUnfinished ==
    /\ phase = "saving"
    /\ sv.pc \notin {"idle", "items"}
    /\ ~(sv.pc = "ret" /\ sv.err = "")

\* C7 as stated: in every state of a Save before its rename has succeeded, the
\* file at path still exists and holds the complete previous snapshot.
C7_PreviousSnapshotKept ==
    SaveUnfinished /\ sv.prev.exists /\ ~Decode(sv.prev.data).err => fsPath = sv.prev

\* C7, amended: Save does not touch path before the new snapshot is fully
\* written and closed, and path never holds a part of a snapshot: it holds the
\* previous file, the complete new snapshot, or (on windows only, where the
\* previous file is removed before the rename) nothing.
C7_PathNeverPartial ==
    /\ phase = "saving" /\ sv.pc \in {"create", "encode", "close", "cleanup"}
          => fsPath = sv.prev
    /\ SaveUnfinished /\ goos # "windows" => fsPath = sv.prev
    /\ SaveUnfinished /\ goos = "windows" => fsPath \in {sv.prev, NoFile}
    /\ phase = "saving" /\ sv.pc \notin {"idle", "items"} /\ fsPath # sv.prev
          => /\ sv.err \in {"", "rename"}
             /\ fsTmp \in {NoFile, File(sv.full)}
             /\ fsPath \in {NoFile, File(sv.full)}

\* C7's case: a Save that failed while writing its temporary file, a part of
\* the text written, with the previous snapshot still at path.
C7_Witness ==
    /\ phase = "saving" /\ sv.pc = "ret" /\ sv.err = "write"
    /\ sv.prev.exists /\ fsPath = sv.prev

\* C8 as stated: Load on a path where no file exists returns no error and
\* leaves the cache empty.
C8_MissingFileNoError ==
    ld.pc = "ret" /\ ld.missing => ld.err = "" /\ table = EmptyTable

\* C8, amended: Load on a path where no file exists returns the error of
\* os.Open, does no Set and leaves the cache as it was, empty.
C8_MissingFileLeavesCacheEmpty ==
    ld.pc = "ret" /\ ld.missing =>
        /\ ld.err = "notexist"
        /\ table = ld.before /\ table = EmptyTable
        /\ ~lastSet.done

\* C8's case: the startup has gone on after a Load that found no file.
C8_Witness ==
    phase = "loaded" /\ ld.pc = "ret" /\ ld.missing /\ ~fsPath.exists

ItemsMap(its) ==
    [k \in {its[i].Key : i \in DOMAIN its} |->
        (CHOOSE it \in {its[i] : i \in DOMAIN its} : it.Key = k).Value]

\* C9: after a Save that succeeded, a Load into a fresh cache returns no error
\* and leaves the cache with exactly the keys and values Items() gave the Save.
C9_SaveLoadRoundTrip ==
    phase = "loaded" /\ sv.err = "" =>
        /\ ld.err = ""
        /\ ValueOf(table) = ItemsMap(sv.items)
        /\ Len(ld.items) = Len(sv.items)

\* C9's case: a snapshot of two entries saved and loaded again.
C9_Witness ==
    /\ phase = "loaded" /\ sv.err = "" /\ Len(sv.items) = 2
    /\ Cardinality(DOMAIN table) = 2

\* C10: a failed save neither blocks nor reverses the shutdown: Stop goes on to
\* close quit, its wait can end (the run loop is able to signal the wait
\* group), it returns nil, and its steps after the save leave p.dmsServer and
\* the servers alone: no server is constructed, initialised or run by Stop,
\* and no server is ever initialised twice.
C10_SaveFailureDoesNotBlockStop ==
    /\ [](hist.stopSave = "err" /\ proc = "alive" =>
            /\ mainPc \in {"stop_quit", "stop_wait", "stopped"}
            /\ mainPc = "stop_wait" => quit = "closed"
            /\ mainPc = "stop_wait" /\ wg > 0 => topPc \in {"recv_quit", "done"}
            /\ mainPc = "stopped" =>
                  hist.stopRet = "nil" /\ quit = "closed" /\ topPc = "exited"
            /\ servers[hist.stopClosed].closeCalls >= 1
            /\ \A i \in DOMAIN servers : servers[i].initCalls <= 1)
    /\ [](hist.stopSave = "err" /\ hist.stopRet # "none" => hist.stopRet = "nil")
    /\ [][hist.stopSave = "err" /\ mainPc' # mainPc /\ proc' = "alive" =>
            dmsServer' = dmsServer /\ servers' = servers /\ tasks' = tasks]_vars

\* C10's case: Stop has returned after a save that failed.
C10_Witness ==
    /\ mainPc = "stopped" /\ hist.stopSave = "err" /\ sv.err # ""
    /\ hist.stopRet = "nil"

\* the instances constructed (listener bound) and not yet closed
Live == {i \in DOMAIN servers : servers[i].closeCalls = 0}

\* C11: at most one serving instance is live at any time: of the instances
\* constructed, all but the last have been closed, and the monitor constructs,
\* initialises and runs a new instance only after its Close of the old one
\* has returned.
C11_AtMostOneLive ==
    /\ Cardinality(Live) <= 1
    /\ \A i \in DOMAIN servers : i < Len(servers) => servers[i].closeCalls >= 1
    /\ \A i \in DOMAIN servers :
          i > 1 => "monitor" \in servers[i - 1].closedBy
    /\ monPc \in {"new_server"} => "monitor" \in servers[dmsServer].closedBy

\* C11's case: a replacement has run: the first instance closed, the second
\* live, initialised and current.
C11_Witness ==
    /\ Len(servers) = 2 /\ Live = {2} /\ dmsServer = 2
    /\ servers[2].inited /\ servers[1].closedBy = {"monitor"}

\* C12: no instance receives two Close calls, and the instance Stop closed is
\* the one that is current when Stop finishes.
C12_CloseAtMostOnce ==
    /\ \A i \in DOMAIN servers : servers[i].closeCalls <= 1
    /\ mainPc = "stopped" => hist.stopClosed = dmsServer

\* C13: when Stop closes the instance and saves the cache, p.dmsServer and
\* p.cache have been set by the startup.
C13_StopFindsInitialisedState ==
    /\ mainPc = "stop_close" => dmsServer # 0 /\ cacheReady
    /\ hist.fatal \notin {"Stop: nil dmsServer", "Stop: nil cache"}

\* C14 as stated: a Close error in the monitor's replacement is logged and
\* the process keeps running.
C14_MonitorCloseErrorNotFatal ==
    hist.fatal = "monitor: Close" => proc = "alive"

\* C14, amended: a Close error in the monitor's replacement is fatal: the
\* process ends with no new instance constructed; the replacement goes on to
\* construct the new instance only after a Close that returned nil.
C14_MonitorCloseErrorFatal ==
    /\ hist.fatal = "monitor: Close" =>
          proc = "fatal" /\ mainPc = "dead" /\ monPc = "none" /\ servers = <<>>
    /\ monPc = "new_server" =>
          /\ "monitor" \in servers[dmsServer].closedBy
          /\ dmsServer = Len(servers)
          /\ hist.fatal = ""

\* C14's case: the process has ended on the monitor's Close error.
C14_Witness ==
    proc = "fatal" /\ hist.fatal = "monitor: Close" /\ hist.stopClose = "none"

\* C16: under fair scheduling, once Start has been called and Stop's Close of
\* the current instance has returned, Stop returns: it saves, closes quit, the
\* goroutine of Start receives from quit and calls wg.Done(), and the Wait
\* ends. (Only the end of the process, by a fatal error of another goroutine,
\* takes Stop with it.)
C16_StopTerminates ==
    (mainPc = "stop_save") ~> (mainPc \in {"stopped", "dead"})

\* C16's case: Stop has returned, the goroutine of Start exited and the wait
\* group at zero, the monitor still asleep.
C16_Witness ==
    /\ mainPc = "stopped" /\ quit = "closed" /\ topPc = "exited" /\ wg = 0
    /\ monPc = "sleep"

\* a Save on windows that found no file at path and whose temporary file was
\* created, written and closed has returned
SavedToNewPath ==
    /\ sv.pc = "ret" /\ goos = "windows" /\ ~sv.prev.exists
    /\ sv.err \notin {"createtemp", "marshal", "write"}

\* C17: where the destination is removed before the rename, a Save to a path
\* with no file yet succeeds: the removal's 'file does not exist' counts as
\* success, the rename is performed and Save returns nil with the new
\* snapshot at path.
C17_SaveToNewPathSucceeds ==
    SavedToNewPath /\ sv.err # "rename" => sv.err = "" /\ fsPath = File(sv.full)

C18_MalformedLoadAllOrNothing ==
    /\ [](ld.err = "decode" =>
            /\ ld.pc = "ret"
            /\ table = ld.before /\ ~lastSet.done
            /\ runPc \in {"loading", "new_server", "init", "spawn_task",
                          "spawn_monitor", "returned"})
    /\ [][ld.pc = "decode" /\ ld'.err = "decode" => table' = table /\ ld'.pc = "ret"]_vars
    /\ [][ld.err = "decode" /\ runPc = "loading" /\ runPc' # runPc /\ proc' = "alive"
            => runPc' = "new_server" /\ table' = table]_vars

\* C18's case: the startup has constructed and initialised the first
\* instance after a Load that failed to decode the file, the cache empty.
C18_Witness ==
    /\ ld.pc = "ret" /\ ld.err = "decode" /\ table = EmptyTable
    /\ dmsServer = 1 /\ servers[1].inited /\ runPc = "returned"

\* C20: Run is called on an instance only after its Init has returned nil,
\* a run task is launched only once the current instance is initialised, and
\* a failed Init ends the process with no further instance constructed or
\* initialised.
C20_RunOnlyAfterInit ==
    /\ \A i \in DOMAIN servers : servers[i].runCalls > 0 => servers[i].inited
    /\ Len(tasks) <= Cardinality({i \in DOMAIN servers : servers[i].inited})
    /\ hist.fatal \in {"runErr: Init", "monitor: Init"} =>
          proc = "fatal" /\ servers = <<>> /\ runPc = "none" /\ monPc = "none"

InCS(p) == cs[p].pc # "idle"

\* C15: at most one goroutine is inside the cache's critical section, and it
\* holds the mutex; a Get, a Set and the snapshot of save find the table as
\* the last completed Set left it, a Get returns and a snapshot holds what
\* that table holds, and the table a Set leaves is one the whole
\* RRCache.Set makes of the table it found.
C15_MutualExclusion ==
    /\ [](\A p, q \in Goroutines : InCS(p) /\ InCS(q) => p = q)
    /\ [](\A p \in Goroutines : InCS(p) <=> mu = p)
    /\ []((\A p \in Goroutines : cs[p].pc \notin {"evict"}) => table = committed)
    /\ [](\A p \in Goroutines :
            /\ cs[p].pc = "got" =>
                  got = [key |-> cs[p].key] @@ RRCacheGet(committed, cs[p].key)
            /\ cs[p].pc = "snapshot" => sv.items \in RRCacheItems(committed))
    /\ [][committed' # committed =>
            \E p \in Goroutines :
               /\ cs[p].pc = "evict" /\ cs'[p].pc = "idle"
               /\ committed' \in RRCacheSet(committed, cs[p].key, cs[p].value,
                                            SetSize(cs[p].key, cs[p].value))]_vars

\* C15's case: a goroutine holds the lock with its snapshot taken, of a cache
\* that completed Sets have left with two entries.
C15_Witness ==
    \E p \in Goroutines :
        /\ cs[p].pc = "snapshot" /\ mu = p /\ Len(sv.items) = 2
        /\ Cardinality(DOMAIN committed) = 2
        /\ \E k \in DOMAIN committed : committed[k].value = MediumValue

====
